---- MODULE Spec2Model ----
(***************************************************************************)
(* A model of timesheet.py: the timesheet table of the SQLite store, the   *)
(* sync / report / latest / create / remove commands, and the two HTTP     *)
(* services sync reads (Clockwork time entries, Jira issue metadata).      *)
(*                                                                         *)
(* Representation.                                                         *)
(*  - Text on which the code computes (issue keys, project codes, ticket   *)
(*    names) is a sequence of one-character strings; text that is only     *)
(*    copied (descriptions, summaries) is a TLA+ string.                   *)
(*  - A nullable column is <<>> (NULL / None) or <<v>>.                    *)
(*  - A day is the number of a calendar day.  The code stores and compares *)
(*    days as zero-padded "%Y-%m-%d" strings, whose lexicographic order is *)
(*    the order of the day numbers.                                        *)
(*  - A number n (minutes, hours) is the integer n * Den, so that the two  *)
(*    divisions by 60 the code performs are exact.                         *)
(*  - One command runs at a time (each is its own process).  sync is split *)
(*    at its HTTP calls, where it can fail; the other commands are one     *)
(*    step each.                                                           *)
(***************************************************************************)
EXTENDS Integers, Sequences, FiniteSets, TLC

VARIABLES
    autoinc,    \* schema: TRUE when id is declared AUTOINCREMENT
    db,         \* the committed content of the store
    pc,         \* "idle", or "loop" while a sync runs its for loop
    entries,    \* sync: the fetched batch
    idx,        \* sync: index of the next entry of the batch
    issue_map,  \* sync: the memo of issue lookups
    txn,        \* sync: the store as the open transaction sees it
    before,     \* history: the committed store when the running sync began
    calls,      \* history: HTTP calls made by the running sync
    out,        \* what the last command printed
    last        \* history: the last command that ended, or the running sync

vars == <<autoinc, db, pc, entries, idx, issue_map, txn, before, calls, out, last>>

\* ---- bounds ------------------------------------------------------------

MaxDay == 1
MaxHorizon == 1
MaxId == 2
MaxBatch == 2

Days == 0..MaxDay
Today == MaxDay
Horizons == 0..MaxHorizon

\* ---- values ------------------------------------------------------------

None == <<>>
Some(v) == <<v>>

Den == 60 * 60
Num(n) == n * Den
Div60(x) == x \div 60

Issues == {10, 11}

\* What the issue tracker may answer: key and fields.summary.
JiraAnswers ==
    { [key |-> <<"A", "B", "C", "D", "-", "7">>, summary |-> "fix login"],
      [key |-> <<"X", "Y", "-", "1">>, summary |-> "write docs"] }

\* The elements of the time service's JSON array: id, timeSpentSeconds,
\* started (a date and a time of day), issue.id.  Entry 1 has two
\* versions that differ in duration, day and issue, and entry 2 shares its
\* issue with one of them: a batch can list an id twice, change an entry, and
\* hold two entries of one issue.
ClockworkEntries ==
    { [id |-> 1, timeSpentSeconds |-> 90,   started |-> <<0, "09:15">>, issue |-> 10],
      [id |-> 1, timeSpentSeconds |-> 5400, started |-> <<1, "14:00">>, issue |-> 11],
      [id |-> 2, timeSpentSeconds |-> 5400, started |-> <<1, "08:30">>, issue |-> 10] }

\* Line 101: the first 10 characters of started, parsed and formatted as a date.
DayOf(started) == started[1]

RECURSIVE SeqsUpTo(_, _)
SeqsUpTo(S, n) ==
    IF n = 0 THEN {<<>>}
    ELSE LET shorter == SeqsUpTo(S, n - 1)
         IN shorter \cup {Append(s, x) : s \in {t \in shorter : Len(t) = n - 1}, x \in S}

Batches == SeqsUpTo(ClockworkEntries, MaxBatch)

\* What the time service may answer to starting_at and ending_at: any batch
\* of entries that started in the window.
get_clockwork_records(start, end) ==
    {b \in Batches :
        \A i \in 1..Len(b) : start <= DayOf(b[i].started) /\ DayOf(b[i].started) <= end}

\* The command line of create.
CreateArgs ==
    {a \in [project : {<<"a", "b", "c">>, <<"X", "y">>},
            minutes : {30},
            description : {"meeting"},
            ticket : {None, Some(<<"T", "-", "1">>)},
            day : Days] :
        (a.ticket = None) <=> (a.project = <<"a", "b", "c">>)}

EmptyMap == [i \in {} |-> None]
NoCalls == [fetch |-> 0, issue |-> [i \in Issues |-> 0]]
EmptyStore == [rows |-> {}, seq |-> 0, hist |-> <<>>]
NoOutput == [horizon |-> 0, listing |-> <<>>, projects |-> {}, days |-> <<>>]

\* ---- pure functions ----------------------------------------------------

UpperChar(c) ==
    CASE c = "a" -> "A" [] c = "b" -> "B" [] c = "c" -> "C"
      [] c = "x" -> "X" [] c = "y" -> "Y" [] OTHER -> c

upper(s) == [i \in 1..Len(s) |-> UpperChar(s[i])]

Prefix3(s) == SubSeq(s, 1, IF Len(s) < 3 THEN Len(s) ELSE 3)

jira_issue_info(answer) ==
    [key |-> answer.key, summary |-> answer.summary, project |-> Prefix3(answer.key)]

Max(S) == CHOOSE x \in S : \A y \in S : y <= x

Ids(rows) == {r.id : r \in rows}

MaxRowId(rows) == IF rows = {} THEN 0 ELSE Max(Ids(rows))


\* ---- the timesheet table -----------------------------------------------

Row(id, entry_id, day, ticket, description, minutes, project) ==
    [id |-> id, entry_id |-> entry_id, day |-> day, ticket |-> ticket,
     description |-> description, minutes |-> minutes, project |-> project]

\* The id SQLite gives a row inserted without one (lines 112 and 188 name no
\* id): one more than the largest id in the table, and with AUTOINCREMENT one
\* more than the largest id the table ever held.  The table is created
\* outside the program, so both declarations of id are covered.
NewId(t) ==
    IF autoinc /\ t.seq > MaxRowId(t.rows) THEN t.seq + 1 ELSE MaxRowId(t.rows) + 1

Insert(t, entry_id, day, ticket, description, minutes, project) ==
    LET id == NewId(t)
    IN [rows |-> t.rows \cup {Row(id, entry_id, day, ticket, description, minutes, project)},
        seq |-> IF autoinc THEN id ELSE 0,
        hist |-> Append(t.hist, id)]

\* Variant: the WHERE clause also takes the rows without an entry_id.
MatchingOrNull(t, id) == {r \in t.rows : r.entry_id = Some(id) \/ r.entry_id = None}

\* UPDATE timesheet SET ... WHERE entry_id=?  The rows it changes.
Matching(t, id) == {r \in t.rows : r.entry_id = Some(id)}

\* Variant: the SET list leaves day out.
UpdateKeepsDay(t, id, ticket, description, minutes, project, day) ==
    [t EXCEPT !.rows =
        {IF r \in Matching(t, id)
         THEN [r EXCEPT !.ticket = ticket, !.description = description,
                        !.minutes = minutes, !.project = project]
         ELSE r : r \in t.rows}]

Update(t, id, ticket, description, minutes, project, day) ==
    [t EXCEPT !.rows =
        {IF r \in Matching(t, id)
         THEN [r EXCEPT !.ticket = ticket, !.description = description,
                        !.minutes = minutes, !.project = project, !.day = day]
         ELSE r : r \in t.rows}]

\* Variant: the insert is not conditional on the update's row count.
UpsertAlwaysInserts(t, entry, issue_info) ==
    LET id == entry.id
        minutes == Div60(Num(entry.timeSpentSeconds))
        u == Update(t, id, Some(issue_info.key), issue_info.summary, minutes,
                    issue_info.project, DayOf(entry.started))
    IN Insert(u, Some(id), DayOf(entry.started), Some(issue_info.key), issue_info.summary,
              minutes, issue_info.project)

\* Variant: a row is inserted without looking for the entry_id.
UpsertInsertsOnly(t, entry, issue_info) ==
    Insert(t, Some(entry.id), DayOf(entry.started), Some(issue_info.key), issue_info.summary,
           Div60(Num(entry.timeSpentSeconds)), issue_info.project)

\* Lines 109-113: the update, and the insert when the update changed no row.
Upsert(t, entry, issue_info) ==
    LET id == entry.id
        minutes == Div60(Num(entry.timeSpentSeconds))
        day == DayOf(entry.started)
        ticket == Some(issue_info.key)
    IN IF Cardinality(Matching(t, id)) = 0
       THEN Insert(t, Some(id), day, ticket, issue_info.summary, minutes, issue_info.project)
       ELSE Update(t, id, ticket, issue_info.summary, minutes, issue_info.project, day)

\* Variant: the row removed is one of the latest day.
DeleteLatestDay(t) ==
    IF t.rows = {} THEN t
    ELSE LET d == Max({r.day : r \in t.rows})
             m == MaxRowId({r \in t.rows : r.day = d})
         IN [t EXCEPT !.rows = {r \in t.rows : r.id # m},
                      !.hist = SelectSeq(t.hist, LAMBDA i : i # m)]

\* DELETE FROM timesheet WHERE id=(SELECT MAX(id) FROM timesheet)
DeleteMax(t) ==
    IF t.rows = {} THEN t
    ELSE LET m == MaxRowId(t.rows)
         IN [t EXCEPT !.rows = {r \in t.rows : r.id # m},
                      !.hist = SelectSeq(t.hist, LAMBDA i : i # m)]

\* ---- report and latest -------------------------------------------------

RECURSIVE SumMinutes(_)
SumMinutes(rows) ==
    IF rows = {} THEN 0
    ELSE LET r == CHOOSE x \in rows : TRUE
         IN r.minutes + SumMinutes(rows \ {r})

WindowStart(h) == Today - h

\* Variant: the lower bound is exclusive.
SelectedAfter(rows, h) == {r \in rows : r.day > WindowStart(h)}

\* WHERE day >= ?
Selected(rows, h) == {r \in rows : r.day >= WindowStart(h)}

\* First query of report and its print: one line per project.
ProjectLines(rows, h) ==
    LET sel == Selected(rows, h)
    IN {[project |-> p, hours |-> Div60(SumMinutes({r \in sel : r.project = p}))] :
            p \in {r.project : r \in sel}}

\* The sequence of the elements of a set of numbers, ascending.
RECURSIVE Ascending(_)
Ascending(S) ==
    IF S = {} THEN <<>>
    ELSE LET m == Max(S) IN Append(Ascending(S \ {m}), m)

\* Variant: the sum is printed as the query returns it.
DayTotalRaw(sum) == sum

\* Line 145: the per-day sum as it is printed.
DayTotal(sum) == Div60(sum)

\* Second query of report and its print: one line per day, ascending.
DayLines(rows, h) ==
    LET sel == Selected(rows, h)
        ds == Ascending({r.day : r \in sel})
    IN [i \in 1..Len(ds) |->
            [day |-> ds[i], total |-> DayTotal(SumMinutes({r \in sel : r.day = ds[i]}))]]

NoTicket == <<"n", "o", " ", "t", "i", "c", "k", "e", "t">>

LatestLine(r) ==
    [day |-> r.day, project |-> r.project,
     ticket |-> IF r.ticket = None \/ r.ticket = Some(<<>>) THEN NoTicket ELSE r.ticket[1],
     description |-> r.description, hours |-> Div60(r.minutes)]

\* ORDER BY 1: the selected rows in every order that is ascending by day
\* (SQL leaves the order of rows of one day open).
Orderings(rows) ==
    LET n == Cardinality(rows)
    IN {s \in [1..n -> rows] :
            /\ \A i, j \in 1..n : i # j => s[i] # s[j]
            /\ \A i, j \in 1..n : i < j => s[i].day <= s[j].day}

report(rows, h, listing) ==
    [horizon |-> h, listing |-> listing,
     projects |-> ProjectLines(rows, h), days |-> DayLines(rows, h)]

\* The outputs latest may produce: the listing, then report's output.
latest(rows, h) ==
    {report(rows, h, [i \in 1..Len(s) |-> LatestLine(s[i])]) :
        s \in Orderings(Selected(rows, h))}

\* ---- the commands ------------------------------------------------------

Idle ==
    /\ pc' = "idle" /\ entries' = <<>> /\ idx' = 0
    /\ issue_map' = EmptyMap /\ txn' = EmptyStore /\ before' = EmptyStore
    /\ calls' = NoCalls

Init ==
    /\ autoinc \in BOOLEAN
    /\ db = EmptyStore
    /\ pc = "idle" /\ entries = <<>> /\ idx = 0
    /\ issue_map = EmptyMap /\ txn = EmptyStore /\ before = EmptyStore
    /\ calls = NoCalls
    /\ out = NoOutput
    /\ last = [op |-> "none"]

\* The entry ids of a batch that no stored row carries: a sync of the batch
\* inserts one row for each.
NewEntryIds(t, batch) ==
    {batch[i].id : i \in 1..Len(batch)} \ {r.entry_id[1] : r \in {x \in t.rows : x.entry_id # None}}

\* Variant: what the transaction wrote survives the end of the process.
KeepsPartialWork(committed, working) == working

\* The process ends without db.commit(): SQLite discards the open transaction.
Rollback(committed, working) == committed

\* sync, lines 86-95, when the time service answers.
SyncFetch(h, batch) ==
    /\ pc = "idle"
    /\ NewId(db) + Cardinality(NewEntryIds(db, batch)) - 1 <= MaxId
    /\ pc' = "loop"
    /\ issue_map' = EmptyMap
    /\ txn' = db
    /\ before' = db
    /\ entries' = batch
    /\ idx' = 1
    /\ calls' = [NoCalls EXCEPT !.fetch = 1]
    /\ out' = NoOutput
    /\ last' = IF last.op = "sync" /\ last.batch = batch
               THEN [op |-> "syncing", again |-> TRUE, infos |-> last.infos]
               ELSE [op |-> "syncing", again |-> FALSE, infos |-> EmptyMap]
    /\ UNCHANGED <<autoinc, db>>

\* sync, line 95, when raise_for_status raises: the process ends.
SyncFetchFails(h) ==
    /\ pc = "idle"
    /\ db' = Rollback(db, db)
    /\ Idle
    /\ out' = NoOutput
    /\ last' = [op |-> "syncfail", at |-> "fetch", applied |-> 0]
    /\ UNCHANGED autoinc

\* Variant: every entry asks the issue tracker.
AlwaysLooksUp(entry) == TRUE

\* Lines 103-106: the memo, and the lookup when the memo has no answer.
NeedsLookup(entry) == entry.issue \notin DOMAIN issue_map

\* sync, lines 98-113: one iteration of the loop, the issue tracker answering
\* when it is asked.
SyncEntry ==
    /\ pc = "loop"
    /\ idx <= Len(entries)
    /\ LET entry == entries[idx]
           issue_id == entry.issue
       IN \E answer \in JiraAnswers :
            LET asked == NeedsLookup(entry)
                issue_info == IF asked THEN jira_issue_info(answer) ELSE issue_map[issue_id]
            IN /\ ~asked => answer = CHOOSE a \in JiraAnswers : TRUE
               /\ issue_map' = [i \in DOMAIN issue_map \cup {issue_id} |->
                                    IF i = issue_id THEN issue_info ELSE issue_map[i]]
               /\ calls' = IF asked THEN [calls EXCEPT !.issue[issue_id] = @ + 1] ELSE calls
               /\ txn' = Upsert(txn, entry, issue_info)
    /\ idx' = idx + 1
    /\ UNCHANGED <<autoinc, db, pc, entries, before, out, last>>

\* sync, line 105, when raise_for_status raises: the process ends with the
\* transaction open, and SQLite rolls it back.
SyncLookupFails ==
    /\ pc = "loop"
    /\ idx <= Len(entries)
    /\ NeedsLookup(entries[idx])
    /\ db' = Rollback(db, txn)
    /\ Idle
    /\ last' = [op |-> "syncfail", at |-> "lookup", applied |-> idx - 1]
    /\ UNCHANGED <<autoinc, out>>

\* sync, lines 115-116.
SyncCommit ==
    /\ pc = "loop"
    /\ idx > Len(entries)
    /\ db' = txn
    /\ Idle
    /\ last' = [op |-> "sync", batch |-> entries, infos |-> issue_map,
                repeat |-> last.again /\ last.infos = issue_map]
    /\ UNCHANGED <<autoinc, out>>

Report(h) ==
    /\ pc = "idle"
    /\ out' = report(db.rows, h, <<>>)
    /\ last' = [op |-> "report", horizon |-> h]
    /\ UNCHANGED <<autoinc, db, pc, entries, idx, issue_map, txn, before, calls>>

Latest(h) ==
    /\ pc = "idle"
    /\ out' \in latest(db.rows, h)
    /\ last' = [op |-> "latest", horizon |-> h]
    /\ UNCHANGED <<autoinc, db, pc, entries, idx, issue_map, txn, before, calls>>

\* Variant: the project is stored as it was typed.
createAsTyped(t, a) ==
    Insert(t, None, a.day, a.ticket, a.description, Num(a.minutes), a.project)

\* Lines 187-189.  minutes comes from the command line as text; the column
\* stores it as the number it spells.
create(t, a) ==
    Insert(t, None, a.day, a.ticket, a.description, Num(a.minutes), upper(a.project))

Create(a) ==
    /\ pc = "idle"
    /\ NewId(db) <= MaxId
    /\ db' = create(db, a)
    /\ out' \in latest(db'.rows, 0)
    /\ last' = [op |-> "create", args |-> a]
    /\ UNCHANGED <<autoinc, pc, entries, idx, issue_map, txn, before, calls>>

remove(t) == DeleteMax(t)

Remove ==
    /\ pc = "idle"
    /\ db' = remove(db)
    /\ out' \in latest(db'.rows, 0)
    /\ last' = [op |-> "remove", deleted |-> db.rows \ db'.rows]
    /\ UNCHANGED <<autoinc, pc, entries, idx, issue_map, txn, before, calls>>

Next ==
    \/ \E h \in Horizons : \E batch \in get_clockwork_records(Today - h, Today) :
            SyncFetch(h, batch)
    \/ \E h \in Horizons : SyncFetchFails(h)
    \/ SyncEntry
    \/ SyncLookupFails
    \/ SyncCommit
    \/ \E h \in Horizons : Report(h)
    \/ \E h \in Horizons : Latest(h)
    \/ \E a \in CreateArgs : Create(a)
    \/ Remove

Spec == Init /\ [][Next]_vars

\* ---- properties ---------------------------------------------------------

Printed == last.op \in {"report", "latest", "create", "remove"}

\* Steps of the commands, told apart by the history they leave.
SyncEntryStep == pc = "loop" /\ pc' = "loop" /\ idx' = idx + 1
SyncCommitStep == pc = "loop" /\ pc' = "idle" /\ last'.op = "sync"
SyncAbortStep == pc' = "idle" /\ last'.op = "syncfail"
CreateStep == pc = "idle" /\ pc' = "idle" /\ last'.op = "create"
RemoveStep == pc = "idle" /\ pc' = "idle" /\ last'.op = "remove"

Shared(rows) ==
    {r \in rows : r.entry_id # None /\ \E q \in rows : q # r /\ q.entry_id = r.entry_id}

\* C1: whatever syncs, creates and removes have run, and whatever batches the
\* syncs fetched, the store holds at most one row for each entry_id.
C1_OneRowPerEntryId == Shared(db.rows) = {}

\* A sync has committed a batch that lists one entry id twice.
C1_Witness ==
    /\ last.op = "sync"
    /\ Len(last.batch) = 2
    /\ last.batch[1].id = last.batch[2].id
    /\ \E r \in db.rows : r.entry_id = Some(last.batch[1].id)

\* C2: a sync that fetches the batch and the issue metadata of the sync that
\* ran just before it commits a store with exactly the rows it found.
C2_Idempotent ==
    [][(SyncCommitStep /\ last'.repeat) => db'.rows = db.rows]_vars

\* A second sync of the same two entries has committed.
C2_Witness ==
    /\ last.op = "sync"
    /\ last.repeat
    /\ Len(last.batch) = 2
    /\ Cardinality(db.rows) = 2

\* The values line 109 and line 112 write for an entry.
Carries(r, entry, info) ==
    /\ r.entry_id = Some(entry.id)
    /\ r.ticket = Some(info.key)
    /\ r.description = info.summary
    /\ r.minutes * 60 = Num(entry.timeSpentSeconds)
    /\ r.project = <<info.key[1], info.key[2], info.key[3]>>
    /\ r.day = entry.started[1]

\* C3: each iteration of sync's loop upserts by entry_id: a row that carries
\* the entry's id keeps its id and takes the fetched values, and the number of
\* rows stays; with no such row, exactly one row is added, with that entry_id.
C3_Upsert ==
    [][SyncEntryStep =>
        LET entry == entries[idx]
            info == issue_map'[entry.issue]
            found == {r \in txn.rows : r.entry_id = Some(entry.id)}
        IN IF found # {}
           THEN /\ Cardinality(txn'.rows) = Cardinality(txn.rows)
                /\ \A r \in found : \E q \in txn'.rows : q.id = r.id /\ Carries(q, entry, info)
                /\ txn.rows \ found \subseteq txn'.rows
           ELSE \E q \in txn'.rows :
                /\ q \notin txn.rows
                /\ txn'.rows = txn.rows \cup {q}
                /\ Carries(q, entry, info)]_vars

\* The loop has updated a row in place, to another day and other minutes.
C3_Witness ==
    /\ pc = "loop" /\ idx = 2
    /\ \E r \in before.rows, q \in txn.rows :
        /\ r.entry_id = Some(entries[1].id)
        /\ q.id = r.id
        /\ q.day # r.day /\ q.minutes # r.minutes
    /\ Cardinality(txn.rows) = Cardinality(before.rows)

\* C4: a sync that commits leaves every row without entry_id as it was and
\* deletes no row.
C4_ManualRowsUntouched ==
    [][SyncCommitStep =>
        /\ \A r \in db.rows : r.entry_id = None => r \in db'.rows
        /\ Ids(db.rows) \subseteq Ids(db'.rows)]_vars

\* A sync has committed entries into a store that holds a manual row.
C4_Witness ==
    /\ last.op = "sync"
    /\ Len(last.batch) > 0
    /\ \E r \in db.rows : r.entry_id = None
    /\ \E r \in db.rows : r.entry_id # None

\* C5: remove on a non-empty store deletes exactly the row of the greatest id,
\* which is the row inserted last among those stored; the others stay.
C5_RemoveMaxId ==
    [][(RemoveStep /\ db.rows # {}) =>
        \E r \in db.rows :
            /\ \A q \in db.rows : q.id <= r.id
            /\ r.id = db.hist[Len(db.hist)]
            /\ db'.rows = db.rows \ {r}]_vars

\* remove has deleted a row while a row of a smaller id and a later day stays.
C5_Witness ==
    /\ last.op = "remove"
    /\ \E r \in last.deleted, q \in db.rows : q.id < r.id /\ q.day > r.day

\* C6: a sync that ends on a failed HTTP call leaves the committed store as
\* it was when the sync began.
C6_AbortKeepsStore ==
    [][SyncAbortStep => db' = (IF pc = "loop" THEN before ELSE db)]_vars

\* A lookup has failed after the loop had inserted or updated a row.
C6_Witness ==
    /\ last.op = "syncfail"
    /\ last.at = "lookup"
    /\ last.applied >= 1

InWindow(h) == {r \in db.rows : r.day >= Today - h}

OfDay(rows, d) == {r \in rows : r.day = d}
OfProject(rows, p) == {r \in rows : r.project = p}

\* C7 as claimed: the per-day line shows the raw sum of the day's minutes, and
\* the per-project line the sum divided by 60.
C7_DayTotalIsRawMinutes ==
    Printed =>
        /\ \A i \in 1..Len(out.days) :
            out.days[i].total = SumMinutes(OfDay(InWindow(out.horizon), out.days[i].day))
        /\ \A l \in out.projects :
            l.hours * 60 = SumMinutes(OfProject(InWindow(out.horizon), l.project))

\* C7 amended: the per-day line shows the sum of the day's minutes divided by
\* 60, as the per-project line does.
C7_DayTotalIsHours ==
    Printed =>
        /\ \A i \in 1..Len(out.days) :
            out.days[i].total * 60 = SumMinutes(OfDay(InWindow(out.horizon), out.days[i].day))
        /\ \A l \in out.projects :
            l.hours * 60 = SumMinutes(OfProject(InWindow(out.horizon), l.project))

\* A report line of a day with two rows.
C7_Witness ==
    /\ Printed
    /\ \E i \in 1..Len(out.days) :
        /\ Cardinality(OfDay(InWindow(out.horizon), out.days[i].day)) = 2
        /\ out.days[i].total > 0

\* C8: report counts and latest lists a row if and only if its day is at or
\* after today - horizon.
C8_InclusiveWindow ==
    Printed =>
        LET w == InWindow(out.horizon)
            n == Cardinality(w)
        IN /\ {out.days[i].day : i \in 1..Len(out.days)} = {r.day : r \in w}
           /\ \A i \in 1..Len(out.days) :
                out.days[i].total * 60 = SumMinutes(OfDay(w, out.days[i].day))
           /\ {l.project : l \in out.projects} = {r.project : r \in w}
           /\ \A l \in out.projects : l.hours * 60 = SumMinutes(OfProject(w, l.project))
           /\ last.op # "report" =>
                /\ Len(out.listing) = n
                /\ \E s \in [1..n -> w] :
                    /\ \A i, j \in 1..n : i # j => s[i] # s[j]
                    /\ \A i \in 1..n : out.listing[i] = LatestLine(s[i])

\* latest has listed a row of the day today - horizon and left out an earlier one.
C8_Witness ==
    /\ last.op = "latest"
    /\ \E r \in db.rows : r.day = Today - out.horizon /\ LatestLine(r) = out.listing[1]
    /\ \E r \in db.rows : r.day < Today - out.horizon
    /\ Len(out.listing) = 1

Uppercase(p) == IF p = <<"a", "b", "c">> THEN <<"A", "B", "C">> ELSE <<"X", "Y">>

\* C9: create adds exactly one row: the project in upper case, the day,
\* minutes, description and ticket as given, no entry_id, and an id greater
\* than every stored id; the rows stored before stay as they were.
C9_Create ==
    [][CreateStep =>
        LET a == last'.args
        IN \E r \in db'.rows :
            /\ r \notin db.rows
            /\ db'.rows = db.rows \cup {r}
            /\ r.project = Uppercase(a.project)
            /\ r.day = a.day /\ r.minutes = Num(a.minutes)
            /\ r.description = a.description /\ r.ticket = a.ticket
            /\ r.entry_id = None
            /\ \A q \in db.rows : q.id < r.id]_vars

\* create has added a row typed in lower case to a store that held a row.
C9_Witness ==
    /\ last.op = "create"
    /\ last.args.project = <<"a", "b", "c">>
    /\ Cardinality(db.rows) = 2
    /\ \E r \in db.rows : r.project = <<"A", "B", "C">> /\ r.entry_id = None /\ r.id = MaxRowId(db.rows)

Processed == {entries[k].issue : k \in 1..(idx - 1)}

\* C10: a running sync has fetched the time service once and has asked the
\* issue tracker once for each issue of the entries processed, no more; the
\* memo holds those issues, and nothing before the first entry.
C10_OneLookupPerIssue ==
    pc = "loop" =>
        /\ calls.fetch = 1
        /\ \A i \in Issues : calls.issue[i] = (IF i \in Processed THEN 1 ELSE 0)
        /\ DOMAIN issue_map = Processed
        /\ idx = 1 => issue_map = EmptyMap

\* The loop has processed two entries of one issue.
C10_Witness ==
    /\ pc = "loop" /\ idx = 3
    /\ entries[1].issue = entries[2].issue
    /\ entries[1].id # entries[2].id

====
